---- MODULE Spec2Model ----
(***************************************************************************)
(* A model of tgjsps (src/src/main.rs): Telegram JSON export -> text       *)
(* transcript + statistics.                                                *)
(*                                                                         *)
(* Strings are sequences of characters; a character is a one-element TLA+  *)
(* string.  Non-ASCII characters are named by their code point ("U+044F")  *)
(* and occupy ByteLen bytes in UTF-8, so that every len() of the source is *)
(* a byte length here too.  The byte scans of the source (fast_tokenize,   *)
(* trim_ascii_punct) only ever stop at ASCII bytes, and every byte of a    *)
(* multi-byte character is >= 0x80, so scanning characters and scanning    *)
(* bytes stop at the same places.                                          *)
(***************************************************************************)
EXTENDS Integers, Sequences, FiniteSets, TLC

VARIABLES
    \* ---- fast_tokenize, run on its own (SpecTok) ----
    tk_pc,        \* "idle" | "loop" | "done"
    tk_text,      \* the segment being tokenized
    tk_i,         \* the byte cursor i (0-based, as in the source)
    tk_tokens,    \* the tokens handed to the callback so far
    \* ---- the program (main / run) ----
    pc,           \* position in main
    verbose,      \* cli.verbose
    stat_txt,     \* cli.stat_txt
    messages,     \* the elements of "messages" the loop has consumed, in order
    stats,        \* Stats
    out,          \* bytes written to the transcript writer
    io,           \* what happened to the outputs, and what was printed
    exit_code,    \* process exit status (-1 while running)
    twin          \* the same input folded with the switch flipped (SpecPair)

vars == <<tk_pc, tk_text, tk_i, tk_tokens,
          pc, verbose, stat_txt, messages, stats, out, io, exit_code, twin>>

tkvars == <<tk_pc, tk_text, tk_i, tk_tokens>>
mainvars == <<pc, verbose, stat_txt, messages, stats, out, io, exit_code, twin>>

-----------------------------------------------------------------------------
(* Bounds *)

MaxTokLen == 4
MaxMsgs == 2
MaxSpamMsgs == 3

-----------------------------------------------------------------------------
(* Characters *)

SP == " "
TAB == "\t"
LF == "\n"
CR == "\r"
NBSP == "U+00A0"
CYR_ya == "U+044F"
CYR_YA == "U+042F"
CYR_o == "U+043E"
CYR_p == "U+043F"
CYR_r == "U+0440"
CYR_s == "U+0441"

NonAscii == {NBSP, CYR_ya, CYR_YA, CYR_o, CYR_p, CYR_r, CYR_s}

AsciiLower == <<"a","b","c","d","e","f","g","h","i","j","k","l","m",
                "n","o","p","q","r","s","t","u","v","w","x","y","z">>
AsciiUpper == <<"A","B","C","D","E","F","G","H","I","J","K","L","M",
                "N","O","P","Q","R","S","T","U","V","W","X","Y","Z">>
AsciiDigit == {"0","1","2","3","4","5","6","7","8","9"}

Range(f) == {f[x] : x \in DOMAIN f}

\* UTF-8 width of a character: the non-ASCII ones used are all in U+0080..U+07FF.
ByteLen(c) == IF c \in NonAscii THEN 2 ELSE 1

RECURSIVE StrLen(_)
\* str::len(): the length in bytes.
StrLen(s) == IF s = <<>> THEN 0 ELSE ByteLen(Head(s)) + StrLen(Tail(s))

\* s[from..to) by character position (0-based, end exclusive)
Slice(s, from, to) == SubSeq(s, from + 1, to)

IsPrefix(p, s) == Len(p) <= Len(s) /\ SubSeq(s, 1, Len(p)) = p

\* str::starts_with
starts_with(s, p) == IsPrefix(p, s)

\* str::contains
contains(s, p) == \E k \in 0..(Len(s) - Len(p)) : SubSeq(s, k + 1, k + Len(p)) = p

HTTP == <<"h","t","t","p",":","/","/">>
HTTPS == <<"h","t","t","p","s",":","/","/">>

\* char::to_lowercase for the characters of the model
LowerChar(c) ==
    IF c \in Range(AsciiUpper)
    THEN AsciiLower[CHOOSE k \in DOMAIN AsciiUpper : AsciiUpper[k] = c]
    ELSE IF c = CYR_YA THEN CYR_ya ELSE c

\* str::to_lowercase
to_lowercase(s) == [k \in DOMAIN s |-> LowerChar(s[k])]

\* char::is_whitespace (Unicode White_Space), for the characters of the model
is_whitespace(c) == c \in {SP, TAB, LF, CR, NBSP}

RECURSIVE TrimStart(_)
TrimStart(s) == IF s # <<>> /\ is_whitespace(Head(s)) THEN TrimStart(Tail(s)) ELSE s

RECURSIVE TrimEnd(_)
TrimEnd(s) ==
    IF s # <<>> /\ is_whitespace(s[Len(s)]) THEN TrimEnd(SubSeq(s, 1, Len(s) - 1)) ELSE s

\* str::trim
trim(s) == TrimEnd(TrimStart(s))

-----------------------------------------------------------------------------
(* The tokenizer *)

is_ascii_ws(b) == b \in {SP, LF, TAB, CR}

is_ascii_word_char(b) ==
    \/ b \in Range(AsciiUpper)
    \/ b \in Range(AsciiLower)
    \/ b \in AsciiDigit
    \/ b \in {"#", "@", "_"}

\* memchr3(n1, n2, n3, hay): the offset of the first of the three needles, or
\* -1 for None
memchr3(n1, n2, n3, hay) ==
    LET hits == {k \in 0..(Len(hay) - 1) : hay[k + 1] \in {n1, n2, n3}}
    IN  IF hits = {} THEN -1 ELSE CHOOSE k \in hits : \A j \in hits : k <= j

RECURSIVE SkipWs(_, _)
\* while i < len && is_ascii_ws(bytes[i]) { i += 1 }
SkipWs(text, i) ==
    IF i < Len(text) /\ is_ascii_ws(text[i + 1]) THEN SkipWs(text, i + 1) ELSE i

\* the end of the token that starts at i: i + memchr3(..).unwrap_or(slice.len())
TokenEnd(text, i) ==
    LET slice == Slice(text, i, Len(text))
        found == memchr3(SP, LF, TAB, slice)
        rel   == IF found = -1 THEN Len(slice) ELSE found
    IN  i + rel

RECURSIVE TokensFrom(_, _)
TokensFrom(text, i) ==
    IF ~(i < Len(text)) THEN <<>>
    ELSE LET start == SkipWs(text, i)
         IN  IF start >= Len(text) THEN <<>>
             ELSE LET end == TokenEnd(text, start)
                  IN  <<Slice(text, start, end)>> \o TokensFrom(text, end)

\* fast_tokenize(text, cb): the tokens cb receives, in order
fast_tokenize(text) == TokensFrom(text, 0)

RECURSIVE TrimLeft(_)
TrimLeft(s) ==
    IF s # <<>> /\ Head(s) \notin NonAscii /\ ~is_ascii_word_char(Head(s))
    THEN TrimLeft(Tail(s)) ELSE s

RECURSIVE TrimRight(_)
TrimRight(s) ==
    IF s # <<>> /\ s[Len(s)] \notin NonAscii /\ ~is_ascii_word_char(s[Len(s)])
    THEN TrimRight(SubSeq(s, 1, Len(s) - 1)) ELSE s

trim_ascii_punct(s) == TrimRight(TrimLeft(s))

-----------------------------------------------------------------------------
(* fast_tokenize as a process: one action per iteration of the outer loop *)

TokAlphabet == {"a", SP, TAB, LF, CR}

RECURSIVE SeqsUpTo(_, _)
SeqsUpTo(S, n) ==
    IF n = 0 THEN {<<>>}
    ELSE LET shorter == SeqsUpTo(S, n - 1)
         IN  shorter \cup {Append(s, c) : s \in {t \in shorter : Len(t) = n - 1}, c \in S}

TokInputs == SeqsUpTo(TokAlphabet, MaxTokLen)

\* while i < len { skip; if i >= len { break }; ...; cb(token) }: the iteration emits
TokEmit ==
    /\ tk_pc = "loop"
    /\ tk_i < Len(tk_text)
    /\ LET start == SkipWs(tk_text, tk_i)
       IN  /\ start < Len(tk_text)
           /\ LET end == TokenEnd(tk_text, start)
              IN  /\ tk_i' = end
                  /\ tk_tokens' = Append(tk_tokens, Slice(tk_text, start, end))
    /\ UNCHANGED <<tk_pc, tk_text>>
    /\ UNCHANGED mainvars

\* the iteration only skips whitespace and breaks
TokBreak ==
    /\ tk_pc = "loop"
    /\ tk_i < Len(tk_text)
    /\ SkipWs(tk_text, tk_i) >= Len(tk_text)
    /\ tk_i' = SkipWs(tk_text, tk_i)
    /\ tk_pc' = "done"
    /\ UNCHANGED <<tk_text, tk_tokens>>
    /\ UNCHANGED mainvars

\* the loop condition i < len is false
TokExit ==
    /\ tk_pc = "loop"
    /\ ~(tk_i < Len(tk_text))
    /\ tk_pc' = "done"
    /\ UNCHANGED <<tk_text, tk_i, tk_tokens>>
    /\ UNCHANGED mainvars

-----------------------------------------------------------------------------
(* JSON values of a message record *)

\* An optional field read through get_str_field or matched against
\* OwnedValue::String: absent, present but not a string, or a string.
Absent == [k |-> "absent", s |-> <<>>]
NonStr == [k |-> "other", s |-> <<>>]
Str(s) == [k |-> "str", s |-> s]

\* The "text" field: absent, a string, an array of parts, or any other shape.
NoText == [k |-> "absent", s |-> <<>>, parts |-> <<>>]
OddText == [k |-> "other", s |-> <<>>, parts |-> <<>>]
TextStr(s) == [k |-> "str", s |-> s, parts |-> <<>>]
TextArr(parts) == [k |-> "arr", s |-> <<>>, parts |-> parts]

\* Parts of a text array: a string, an object with a string "text" (an entity),
\* an object without one, or anything else (number, null, nested array).
PStr(s) == [k |-> "str", s |-> s]
PEntity(s) == [k |-> "entity", s |-> s]
PObjNoText == [k |-> "obj", s |-> <<>>]
POther == [k |-> "other", s |-> <<>>]

\* The "poll" field: absent, not an object, or an object with its "question".
NoPoll == [k |-> "absent", q |-> Absent]
OddPoll == [k |-> "other", q |-> Absent]
Poll(q) == [k |-> "obj", q |-> q]

\* The "date" field.  A date string either does not have the shape
\* %Y-%m-%dT%H:%M:%S (shaped = FALSE) or carries its six numbers.
NoDate == [k |-> "absent", shaped |-> FALSE, y |-> 0, mo |-> 0, d |-> 0, h |-> 0, mi |-> 0, sec |-> 0]
OddDate == [k |-> "other", shaped |-> FALSE, y |-> 0, mo |-> 0, d |-> 0, h |-> 0, mi |-> 0, sec |-> 0]
BadDate == [k |-> "str", shaped |-> FALSE, y |-> 0, mo |-> 0, d |-> 0, h |-> 0, mi |-> 0, sec |-> 0]
Date(y, mo, d, h, mi, sec) ==
    [k |-> "str", shaped |-> TRUE, y |-> y, mo |-> mo, d |-> d, h |-> h, mi |-> mi, sec |-> sec]

MESSAGE == <<"m","e","s","s","a","g","e">>
SERVICE == <<"s","e","r","v","i","c","e">>
VOICE_MESSAGE == <<"v","o","i","c","e","_","m","e","s","s","a","g","e">>
VIDEO_FILE == <<"v","i","d","e","o","_","f","i","l","e">>
AUDIO_FILE == <<"a","u","d","i","o","_","f","i","l","e">>
ANIMATION == <<"a","n","i","m","a","t","i","o","n">>
STICKER == <<"s","t","i","c","k","e","r">>
VIDEO_MESSAGE == <<"v","i","d","e","o","_","m","e","s","s","a","g","e">>

UNKNOWN == <<"U","n","k","n","o","w","n">>
NO_ID == <<"n","o","_","i","d">>
POLL_OPEN == <<"[", CYR_o, CYR_p, CYR_r, CYR_o, CYR_s, ":", SP>>

\* An element of "messages" that is an object.  forwarded_from,
\* forwarded_from_id, photo and file are read for presence only.
Obj(type, from, from_id, ff, ffid, date, text, poll, photo, media_type, file) ==
    [is_object |-> TRUE, type |-> type, from |-> from, from_id |-> from_id,
     forwarded_from |-> ff, forwarded_from_id |-> ffid, date |-> date,
     text |-> text, poll |-> poll, photo |-> photo, media_type |-> media_type,
     file |-> file]

\* An element that is not an object (a number, a string, null, an array)
NotAnObject ==
    [Obj(Absent, Absent, Absent, FALSE, FALSE, NoDate, NoText, NoPoll, FALSE, Absent, FALSE)
        EXCEPT !.is_object = FALSE]

\* Before the loop has consumed anything
NoElement == NotAnObject

-----------------------------------------------------------------------------
(* Helpers over JSON *)

\* get_str_field(obj, key).unwrap_or(default)
get_str_field_or(field, default) == IF field.k = "str" THEN field.s ELSE default

RECURSIVE PartSegments(_)
PartSegments(parts) ==
    IF parts = <<>> THEN <<>>
    ELSE (IF Head(parts).k \in {"str", "entity"} THEN <<Head(parts).s>> ELSE <<>>)
         \o PartSegments(Tail(parts))

\* for_each_text_segment(v, f): the segments f receives, in order
for_each_text_segment(v) ==
    CASE v.k = "str" -> <<v.s>>
      [] v.k = "arr" -> PartSegments(v.parts)
      [] OTHER -> <<>>

RECURSIVE Concat(_)
Concat(segs) == IF segs = <<>> THEN <<>> ELSE Head(segs) \o Concat(Tail(segs))

\* write_text_value(v, w): the bytes written when no write fails
write_text_value(v) == Concat(for_each_text_segment(v))

\* text_is_empty with the all_empty test forgotten
text_is_empty_no_segments(v) == for_each_text_segment(v) = <<>>

text_is_empty(v) ==
    LET segs == for_each_text_segment(v)
        any == segs # <<>>
        all_empty == \A k \in DOMAIN segs : segs[k] = <<>>
    IN  IF ~any THEN TRUE ELSE all_empty

has_link_str(s) == contains(s, HTTP) \/ contains(s, HTTPS)

text_has_link(v) ==
    LET segs == for_each_text_segment(v)
    IN  \E k \in DOMAIN segs : has_link_str(segs[k])

\* get_poll_question(poll_val): Absent stands for None
get_poll_question(poll_val) ==
    IF poll_val.k = "obj" /\ poll_val.q.k = "str" THEN poll_val.q ELSE Absent

-----------------------------------------------------------------------------
(* Stats *)

EmptyMap == <<>>

\* *map.entry(k).or_insert(0) += 1
MapInc(m, k) == IF k \in DOMAIN m THEN [m EXCEPT ![k] = @ + 1] ELSE m @@ (k :> 1)

\* *map.entry(a).or_default().entry(k).or_insert(0) += 1
MapInc2(m, a, k) ==
    IF a \in DOMAIN m THEN [m EXCEPT ![a] = MapInc(@, k)] ELSE m @@ (a :> (k :> 1))

HOURS == 24
DAYS == 32

\* Stats::default()
StatsDefault ==
    [total_messages |-> 0, messages_with_any_media |-> 0,
     photo_messages |-> 0, video_messages |-> 0, voice_messages |-> 0,
     audio_messages |-> 0, gif_messages |-> 0, sticker_messages |-> 0,
     file_messages |-> 0, poll_messages |-> 0, forwarded_messages |-> 0,
     link_messages |-> 0,
     per_author |-> EmptyMap,
     word_freq |-> EmptyMap,
     word_freq_per_author |-> EmptyMap,
     hour_hist |-> [h \in 0..(HOURS - 1) |-> 0],
     day_hist |-> [d \in 0..(DAYS - 1) |-> 0],
     spam_map |-> EmptyMap]

-----------------------------------------------------------------------------
(* Words and spam *)

RECURSIVE RawTokens(_)
\* the raw tokens of every segment, in the order the callbacks run
RawTokens(segs) ==
    IF segs = <<>> THEN <<>> ELSE fast_tokenize(Head(segs)) \o RawTokens(Tail(segs))

\* count_token with the link test forgotten
count_token_with_links(st, author, raw) ==
    LET token == trim_ascii_punct(raw)
        token_lower == to_lowercase(token)
    IN  IF StrLen(token) < 3 THEN st
        ELSE IF token_lower = <<>> THEN st
        ELSE [st EXCEPT !.word_freq = MapInc(@, token_lower),
                        !.word_freq_per_author = MapInc2(@, author, token_lower)]

\* the body of the closure of update_word_stats, for one raw token
count_token(st, author, raw) ==
    LET token == trim_ascii_punct(raw)
        token_lower == to_lowercase(token)
    IN  IF StrLen(token) < 3 THEN st
        ELSE IF starts_with(token, HTTP) \/ starts_with(token, HTTPS) THEN st
        ELSE IF token_lower = <<>> THEN st
        ELSE [st EXCEPT !.word_freq = MapInc(@, token_lower),
                        !.word_freq_per_author = MapInc2(@, author, token_lower)]

RECURSIVE CountTokens(_, _, _)
CountTokens(st, author, raws) ==
    IF raws = <<>> THEN st
    ELSE CountTokens(count_token(st, author, Head(raws)), author, Tail(raws))

update_word_stats(st, author, text_val) ==
    CountTokens(st, author, RawTokens(for_each_text_segment(text_val)))

build_full_text(v) == Concat(for_each_text_segment(v))

\* track_spam with the trim forgotten
track_spam_untrimmed(st, author, text_val) ==
    LET full == build_full_text(text_val)
        norm == to_lowercase(full)
    IN  IF StrLen(norm) < 5 THEN st
        ELSE [st EXCEPT !.spam_map = MapInc2(@, author, norm)]

track_spam(st, author, text_val) ==
    LET full == build_full_text(text_val)
        norm == to_lowercase(trim(full))
    IN  IF StrLen(norm) < 5 THEN st
        ELSE [st EXCEPT !.spam_map = MapInc2(@, author, norm)]

-----------------------------------------------------------------------------
(* Dates *)

IsLeap(y) == (y % 4 = 0 /\ y % 100 # 0) \/ y % 400 = 0

DaysIn(y, mo) ==
    IF mo = 2 THEN (IF IsLeap(y) THEN 29 ELSE 28)
    ELSE IF mo \in {4, 6, 9, 11} THEN 30 ELSE 31

\* NaiveDateTime::parse_from_str(date_str, "%Y-%m-%dT%H:%M:%S").is_ok():
\* the shape matches and the numbers name a calendar date and a time of day
\* (chrono accepts second 60 as a leap second).
parse_ok(date) ==
    /\ date.k = "str"
    /\ date.shaped
    /\ date.mo \in 1..12
    /\ date.d \in 1..DaysIn(date.y, date.mo)
    /\ date.h \in 0..23
    /\ date.mi \in 0..59
    /\ date.sec \in 0..60

\* update_hist with the verbose test forgotten
update_hist_unconditional(st, date, vb) ==
    IF parse_ok(date)
    THEN LET h == date.h
             d == date.d
             st1 == IF h < HOURS THEN [st EXCEPT !.hour_hist[h] = @ + 1] ELSE st
         IN  IF d < DAYS THEN [st1 EXCEPT !.day_hist[d] = @ + 1] ELSE st1
    ELSE st

\* the activity block of the loop (verbose only)
update_hist(st, date, vb) ==
    IF vb /\ parse_ok(date)
    THEN LET h == date.h
             d == date.d
             st1 == IF h < HOURS THEN [st EXCEPT !.hour_hist[h] = @ + 1] ELSE st
         IN  IF d < DAYS THEN [st1 EXCEPT !.day_hist[d] = @ + 1] ELSE st1
    ELSE st

-----------------------------------------------------------------------------
(* The loop body of run(): one qualifying message folded into Stats and      *)
(* written to the transcript.  A fold state is [st |-> Stats, o |-> bytes].  *)

\* the element is an object whose "type" is the string "message"
qualifies(e) == e.is_object /\ get_str_field_or(e.type, <<>>) = MESSAGE

author_name(e) == get_str_field_or(e.from, UNKNOWN)

\* total_messages, per_author, forwarded_messages
fold_counts(st, e) ==
    LET st1 == [st EXCEPT !.total_messages = @ + 1,
                          !.per_author = MapInc(@, author_name(e))]
    IN  IF e.forwarded_from \/ e.forwarded_from_id
        THEN [st1 EXCEPT !.forwarded_messages = @ + 1]
        ELSE st1

\* the prefix "name(id): "
fold_prefix(o, e) ==
    o \o author_name(e) \o <<"(">> \o get_str_field_or(e.from_id, NO_ID) \o <<")", ":", SP>>

\* fold_text with the link count kept in the light path only
fold_text_link_light_only(f, e, vb) ==
    IF e.text.k # "absent" /\ ~text_is_empty(e.text)
    THEN LET st1 == IF ~vb /\ text_has_link(e.text)
                    THEN [f.st EXCEPT !.link_messages = @ + 1] ELSE f.st
             st2 == IF vb
                    THEN track_spam(update_word_stats(st1, author_name(e), e.text),
                                    author_name(e), e.text)
                    ELSE st1
         IN  [st |-> st2, o |-> f.o \o write_text_value(e.text), has_any_text |-> TRUE]
    ELSE [st |-> f.st, o |-> f.o, has_any_text |-> FALSE]

\* the text block; has_any_text is returned with the fold state
fold_text(f, e, vb) ==
    IF e.text.k # "absent" /\ ~text_is_empty(e.text)
    THEN LET st1 == IF text_has_link(e.text)
                    THEN [f.st EXCEPT !.link_messages = @ + 1] ELSE f.st
             st2 == IF vb
                    THEN track_spam(update_word_stats(st1, author_name(e), e.text),
                                    author_name(e), e.text)
                    ELSE st1
         IN  [st |-> st2, o |-> f.o \o write_text_value(e.text), has_any_text |-> TRUE]
    ELSE [st |-> f.st, o |-> f.o, has_any_text |-> FALSE]

\* the poll question written in place of the text
fold_poll_fallback(o, e, has_any_text) ==
    IF ~has_any_text /\ e.poll.k # "absent" /\ get_poll_question(e.poll).k = "str"
    THEN o \o POLL_OPEN \o get_poll_question(e.poll).s \o <<"]">>
    ELSE o

\* one media counter incremented, has_any_media set
Bump(m, field) == [st |-> [m.st EXCEPT ![field] = @ + 1], any |-> TRUE]

\* match mt.as_str() { ... }
media_type_counter(mt) ==
    CASE mt = VOICE_MESSAGE -> "voice_messages"
      [] mt = VIDEO_FILE -> "video_messages"
      [] mt = AUDIO_FILE -> "audio_messages"
      [] mt = ANIMATION -> "gif_messages"
      [] mt = STICKER -> "sticker_messages"
      [] OTHER -> "none"

\* is_bare_file with the media_type test forgotten
is_bare_file_whatever_tag(e) == e.file

\* is_bare_file with the media_type test passing every tag that is not recognized
is_bare_file_unrecognized_tag(e) ==
    e.file /\ (e.media_type.k = "str" => media_type_counter(e.media_type.s) = "none")

\* msg_obj.get("file").is_some() && !msg_obj.contains_key("media_type")
is_bare_file(e) == e.file /\ e.media_type.k = "absent"

\* bump_any_media counting every message
bump_any_media_always(m) == [m.st EXCEPT !.messages_with_any_media = @ + 1]

\* has_any_media after the four media blocks
bump_any_media(m) ==
    IF m.any THEN [m.st EXCEPT !.messages_with_any_media = @ + 1] ELSE m.st

\* the media block
fold_media(st, e) ==
    LET m0 == [st |-> st, any |-> FALSE]
        m1 == IF e.photo THEN Bump(m0, "photo_messages") ELSE m0
        m2 == IF e.media_type.k = "str" /\ media_type_counter(e.media_type.s) # "none"
              THEN Bump(m1, media_type_counter(e.media_type.s)) ELSE m1
        m3 == IF is_bare_file(e) THEN Bump(m2, "file_messages") ELSE m2
        m4 == IF e.poll.k # "absent" THEN Bump(m3, "poll_messages") ELSE m3
    IN  bump_any_media(m4)

\* the whole iteration for a qualifying element
fold(f, e, vb) ==
    LET st1 == update_hist(fold_counts(f.st, e), e.date, vb)
        t   == fold_text([st |-> st1, o |-> fold_prefix(f.o, e)], e, vb)
        o2  == fold_poll_fallback(t.o, e, t.has_any_text)
    IN  [st |-> fold_media(t.st, e), o |-> o2 \o <<LF>>]

-----------------------------------------------------------------------------
(* The report: write_stats *)

RECURSIVE SumOver(_, _)
SumOver(m, keys) ==
    IF keys = {} THEN 0
    ELSE LET k == CHOOSE x \in keys : TRUE IN m[k] + SumOver(m, keys \ {k})

\* for &count in msgs.values() { if count > 1 { extra += count - 1 } }
spam_extra(msgs) ==
    LET over == [t \in DOMAIN msgs |-> IF msgs[t] > 1 THEN msgs[t] - 1 ELSE 0]
    IN  SumOver(over, DOMAIN over)

\* spam_scores: the (author, extra) pairs pushed, extra > 0 only
spam_scores(st) ==
    {<<a, spam_extra(st.spam_map[a])>> : a \in {b \in DOMAIN st.spam_map : spam_extra(st.spam_map[b]) > 0}}

\* what write_stats prints of the spam block (nothing unless verbose; the ten
\* highest scores otherwise, which is all of them for up to ten authors)
spam_lines(st, vb) == IF vb THEN spam_scores(st) ELSE {}

-----------------------------------------------------------------------------
(* main() and run() as a process *)

IoNone == [failed |-> {}, stderr |-> {}, stdout |-> {}, spam |-> {}]

FoldStart == [st |-> StatsDefault, o |-> <<>>]

\* the element the loop consumed last
msg_val == IF messages = <<>> THEN NoElement ELSE messages[Len(messages)]

TokIdle == tk_pc = "idle" /\ tk_text = <<>> /\ tk_i = 0 /\ tk_tokens = <<>>

\* after Cli::parse(): the two switches are the command line's
Init ==
    /\ TokIdle
    /\ pc = "start"
    /\ verbose \in BOOLEAN
    /\ stat_txt \in BOOLEAN
    /\ messages = <<>>
    /\ stats = StatsDefault
    /\ out = <<>>
    /\ io = IoNone
    /\ exit_code = -1
    /\ twin = FoldStart

\* run() returns Err before the transcript is created: the input cannot be
\* read, is not JSON, its root is no object, "messages" is missing or no array.
\* main prints the fatal error and exits with 1.
IngestFail ==
    /\ pc = "start"
    /\ \E why \in {"read", "json", "root", "no_messages", "not_array"} :
          io' = [io EXCEPT !.stderr = @ \cup {"fatal"}]
    /\ pc' = "exit"
    /\ exit_code' = 1
    /\ UNCHANGED <<verbose, stat_txt, messages, stats, out, twin>>
    /\ UNCHANGED tkvars

\* File::create(output_path)? fails
CreateFail ==
    /\ pc = "start"
    /\ io' = [io EXCEPT !.failed = @ \cup {"transcript_create"},
                        !.stderr = @ \cup {"fatal"}]
    /\ pc' = "exit"
    /\ exit_code' = 1
    /\ UNCHANGED <<verbose, stat_txt, messages, stats, out, twin>>
    /\ UNCHANGED tkvars

\* the input is read and the transcript created: the loop starts
CreateOk ==
    /\ pc = "start"
    /\ pc' = "loop"
    /\ UNCHANGED <<verbose, stat_txt, messages, stats, out, io, exit_code, twin>>
    /\ UNCHANGED tkvars

\* an element that is no object, or whose type is not "message": continue
SkipElement(U, bound) ==
    /\ pc = "loop"
    /\ Len(messages) < bound
    /\ \E e \in U :
          /\ ~qualifies(e)
          /\ messages' = Append(messages, e)
    /\ UNCHANGED <<pc, verbose, stat_txt, stats, out, io, exit_code, twin>>
    /\ UNCHANGED tkvars

\* a qualifying element, every write of which succeeds
FoldMessage(U, bound) ==
    /\ pc = "loop"
    /\ Len(messages) < bound
    /\ \E e \in U :
          /\ qualifies(e)
          /\ messages' = Append(messages, e)
          /\ LET f == fold([st |-> stats, o |-> out], e, verbose)
             IN  stats' = f.st /\ out' = f.o
    /\ UNCHANGED <<pc, verbose, stat_txt, io, exit_code, twin>>
    /\ UNCHANGED tkvars

\* the same step with the run under the flipped switch kept beside it
FoldBoth(U, bound) ==
    /\ pc = "loop"
    /\ Len(messages) < bound
    /\ \E e \in U :
          /\ qualifies(e)
          /\ messages' = Append(messages, e)
          /\ LET f == fold([st |-> stats, o |-> out], e, verbose)
             IN  stats' = f.st /\ out' = f.o
          /\ twin' = fold(twin, e, ~verbose)
    /\ UNCHANGED <<pc, verbose, stat_txt, io, exit_code>>
    /\ UNCHANGED tkvars

\* a write_all(..)? of the loop returns Err: run() returns it, main prints the
\* fatal error and exits with 1
WriteFail(U, bound) ==
    /\ pc = "loop"
    /\ Len(messages) < bound
    /\ \E e \in U : qualifies(e)
    /\ io' = [io EXCEPT !.failed = @ \cup {"transcript_write"},
                        !.stderr = @ \cup {"fatal"}]
    /\ pc' = "exit"
    /\ exit_code' = 1
    /\ UNCHANGED <<verbose, stat_txt, messages, stats, out, twin>>
    /\ UNCHANGED tkvars

\* the array is exhausted: Ok(stats).  `out`, a BufWriter, is dropped here and
\* flushes what it still buffers; an error of that flush is discarded.
RunReturn ==
    /\ pc = "loop"
    /\ \E flushed \in BOOLEAN :
          io' = IF flushed THEN io
                ELSE [io EXCEPT !.failed = @ \cup {"transcript_flush"}]
    /\ pc' = "report"
    /\ UNCHANGED <<verbose, stat_txt, messages, stats, out, exit_code, twin>>
    /\ UNCHANGED tkvars

\* --txt: write_stats_to_file returns Err (create or write); main prints the
\* error and goes on
StatFileFail ==
    /\ pc = "report"
    /\ stat_txt
    /\ \E what \in {"report_create", "report_write"} :
          io' = [io EXCEPT !.failed = @ \cup {what},
                           !.stderr = @ \cup {"stat_txt_error"}]
    /\ pc' = "finish"
    /\ UNCHANGED <<verbose, stat_txt, messages, stats, out, exit_code, twin>>
    /\ UNCHANGED tkvars

\* --txt: write_stats_to_file returns Ok; its BufWriter is dropped on return
\* and an error of the final flush is discarded
StatFileOk ==
    /\ pc = "report"
    /\ stat_txt
    /\ \E flushed \in BOOLEAN :
          io' = IF flushed
                THEN [io EXCEPT !.stdout = @ \cup {"stat_written"},
                                !.spam = spam_lines(stats, verbose)]
                ELSE [io EXCEPT !.stdout = @ \cup {"stat_written"},
                                !.failed = @ \cup {"report_flush"}]
    /\ pc' = "finish"
    /\ UNCHANGED <<verbose, stat_txt, messages, stats, out, exit_code, twin>>
    /\ UNCHANGED tkvars

\* console: write_stats returns Err; main prints the error and goes on
ConsoleFail ==
    /\ pc = "report"
    /\ ~stat_txt
    /\ io' = [io EXCEPT !.failed = @ \cup {"report_write"},
                        !.stderr = @ \cup {"console_error"}]
    /\ pc' = "finish"
    /\ UNCHANGED <<verbose, stat_txt, messages, stats, out, exit_code, twin>>
    /\ UNCHANGED tkvars

\* console: write_stats returns Ok; the BufWriter over stdout is dropped at the
\* end of the block and an error of the final flush is discarded
ConsoleOk ==
    /\ pc = "report"
    /\ ~stat_txt
    /\ \E flushed \in BOOLEAN :
          io' = IF flushed
                THEN [io EXCEPT !.spam = spam_lines(stats, verbose)]
                ELSE [io EXCEPT !.failed = @ \cup {"report_flush"}]
    /\ pc' = "finish"
    /\ UNCHANGED <<verbose, stat_txt, messages, stats, out, exit_code, twin>>
    /\ UNCHANGED tkvars

\* println!("История чата записана в {}"), the timing line, and main returns
Finish ==
    /\ pc = "finish"
    /\ io' = [io EXCEPT !.stdout = @ \cup {"history_written"}]
    /\ pc' = "exit"
    /\ exit_code' = 0
    /\ UNCHANGED <<verbose, stat_txt, messages, stats, out, twin>>
    /\ UNCHANGED tkvars

-----------------------------------------------------------------------------
(* Inputs *)

A == <<"A">>
B == <<"B">>
U1 == <<"u", "1">>
Q == <<"Q", "?">>

\* a message from `from` with nothing but the given fields
Msg(from, date, text, poll, photo, media_type, file) ==
    Obj(Str(MESSAGE), from, Absent, FALSE, FALSE, date, text, poll, photo, media_type, file)

T_abcde == TextStr(<<"a","b","c","d","e">>)
T_ABCDE_padded == TextStr(<<SP, "A","B","C","D","E", LF>>)
T_ab_cde == TextArr(<<PStr(<<"a","b">>), POther, PEntity(<<"c","d","e">>), PObjNoText>>)
T_abc_abc == TextStr(<<"a","b","c", SP, "A","b","c", ".">>)
T_yaya == TextStr(<<CYR_ya, CYR_ya>>)
T_YAyaya == TextStr(<<CYR_YA, CYR_ya, CYR_ya>>)
T_nbsp_abcd == TextStr(<<NBSP, "a","b","c","d", NBSP>>)
T_http == TextStr(HTTP \o <<"a","b">>)
T_HTTP_upper == TextStr(<<"H","T","T","P",":","/","/","a","b">>)
T_paren_https == TextStr(<<"(">> \o HTTPS \o <<"a","b",")">>)
T_xhttp == TextStr(<<"x">> \o HTTP \o <<"a">>)
T_word_then_link == TextArr(<<PStr(<<"s","e","e", SP>>), PEntity(HTTPS \o <<"x">>)>>)
T_empty_str == TextStr(<<>>)
T_empty_arr == TextArr(<<>>)
T_empty_parts == TextArr(<<PStr(<<>>), PEntity(<<>>)>>)
T_no_segments == TextArr(<<PObjNoText, POther>>)

EmptyTexts == {NoText, OddText, T_empty_str, T_empty_arr, T_empty_parts, T_no_segments}

RecognizedMediaTypes == {VOICE_MESSAGE, VIDEO_FILE, AUDIO_FILE, ANIMATION, STICKER}

MediaTypeValues ==
    {Absent, NonStr, Str(VIDEO_MESSAGE)} \cup {Str(mt) : mt \in RecognizedMediaTypes}

GoodDate == Date(2024, 1, 5, 10, 0, 0)

NonMessages ==
    {NotAnObject,
     Obj(Str(SERVICE), Str(A), Str(U1), TRUE, FALSE, GoodDate, T_abcde, Poll(Str(Q)), TRUE, Str(STICKER), TRUE),
     Obj(Absent, Str(A), Absent, FALSE, FALSE, NoDate, T_http, NoPoll, FALSE, Absent, TRUE),
     Obj(NonStr, Absent, Absent, FALSE, FALSE, NoDate, NoText, NoPoll, TRUE, Absent, FALSE)}

\* the program as a whole
CoreElems ==
    NonMessages \cup
    {Obj(Str(MESSAGE), Str(A), Str(U1), FALSE, FALSE, GoodDate, T_abcde, NoPoll, FALSE, Absent, FALSE),
     Obj(Str(MESSAGE), Str(B), NonStr, TRUE, FALSE, NoDate, T_word_then_link, NoPoll, TRUE, Absent, FALSE),
     Obj(Str(MESSAGE), Absent, Absent, FALSE, TRUE, BadDate, NoText, Poll(Str(Q)), FALSE, Absent, FALSE),
     Obj(Str(MESSAGE), NonStr, Str(U1), FALSE, FALSE, OddDate, T_empty_str, NoPoll, FALSE, Str(STICKER), TRUE)}

\* media fields
MediaElems ==
    {NotAnObject} \cup
    {Msg(Str(A), NoDate, NoText, NoPoll, photo, mt, file) :
        photo \in BOOLEAN, mt \in MediaTypeValues, file \in BOOLEAN} \cup
    {Msg(Str(A), NoDate, NoText, Poll(Str(Q)), FALSE, Absent, FALSE),
     Msg(Str(A), NoDate, NoText, OddPoll, TRUE, Absent, FALSE),
     Msg(Str(A), NoDate, NoText, Poll(Absent), FALSE, Str(STICKER), TRUE),
     Msg(Str(A), NoDate, T_abcde, Poll(Str(Q)), TRUE, Absent, TRUE)}

\* text and poll
TextElems ==
    {NotAnObject} \cup
    {Msg(Str(A), NoDate, text, poll, FALSE, Absent, FALSE) :
        text \in EmptyTexts, poll \in {NoPoll, Poll(Str(Q))}} \cup
    {Msg(Str(A), NoDate, NoText, poll, FALSE, Absent, FALSE) :
        poll \in {OddPoll, Poll(Absent), Poll(NonStr)}} \cup
    {Msg(Str(A), NoDate, T_http, Poll(Str(Q)), FALSE, Absent, FALSE)} \cup
    {Msg(from, NoDate, text, NoPoll, FALSE, Absent, FALSE) :
        from \in {Str(A), Absent},
        text \in {T_abc_abc, T_yaya, T_http, T_HTTP_upper, T_paren_https, T_xhttp,
                  T_word_then_link}}

\* repeated texts
SpamElems ==
    {NotAnObject} \cup
    {Msg(Str(A), NoDate, text, NoPoll, FALSE, Absent, FALSE) :
        text \in {T_abcde, T_ABCDE_padded, T_ab_cde, T_nbsp_abcd, T_YAyaya, T_empty_str}} \cup
    {Msg(Str(B), NoDate, T_abcde, NoPoll, FALSE, Absent, FALSE)}

\* dates
HistElems ==
    {NotAnObject} \cup
    {Msg(Str(A), date, text, NoPoll, FALSE, Absent, FALSE) :
        date \in {NoDate, OddDate, BadDate, GoodDate,
                  Date(2024, 1, 31, 0, 59, 60), Date(2024, 2, 29, 23, 0, 0),
                  Date(2023, 2, 29, 23, 0, 0), Date(2024, 1, 0, 10, 0, 0),
                  Date(2024, 1, 32, 10, 0, 0), Date(2024, 4, 31, 10, 0, 0),
                  Date(2024, 13, 1, 10, 0, 0), Date(2024, 1, 5, 24, 0, 0),
                  Date(2024, 1, 5, 10, 60, 0)},
        text \in {NoText, T_abcde}}

\* both profiles side by side
PairElems == CoreElems \cup
    {Msg(Str(A), NoDate, text, NoPoll, FALSE, Absent, FALSE) :
        text \in {T_abc_abc, T_HTTP_upper, T_ab_cde, T_no_segments}} \cup
    {Msg(Absent, GoodDate, NoText, poll, FALSE, mt, TRUE) :
        poll \in {NoPoll, Poll(Str(Q)), OddPoll}, mt \in {Absent, Str(VIDEO_FILE), Str(VIDEO_MESSAGE)}}

-----------------------------------------------------------------------------
(* Specifications *)

Next ==
    \/ IngestFail
    \/ CreateFail
    \/ CreateOk
    \/ SkipElement(CoreElems, MaxMsgs)
    \/ FoldMessage(CoreElems, MaxMsgs)
    \/ WriteFail(CoreElems, MaxMsgs)
    \/ RunReturn
    \/ StatFileFail
    \/ StatFileOk
    \/ ConsoleFail
    \/ ConsoleOk
    \/ Finish

Spec == Init /\ [][Next]_vars

\* the command line has no --txt.  The specifications below stop where run()
\* returns, before the report, which alone reads that switch.
InitConsole == Init /\ ~stat_txt

\* run() over inputs that vary the media fields
NextMedia ==
    \/ CreateOk
    \/ SkipElement(MediaElems, MaxMsgs)
    \/ FoldMessage(MediaElems, MaxMsgs)
    \/ RunReturn

SpecMedia == InitConsole /\ [][NextMedia]_vars

\* run() over inputs that vary the text and the poll
NextText ==
    \/ CreateOk
    \/ SkipElement(TextElems, MaxMsgs)
    \/ FoldMessage(TextElems, MaxMsgs)
    \/ RunReturn

SpecText == InitConsole /\ [][NextText]_vars

\* run() over inputs that repeat texts
NextSpam ==
    \/ CreateOk
    \/ SkipElement(SpamElems, MaxSpamMsgs)
    \/ FoldMessage(SpamElems, MaxSpamMsgs)
    \/ RunReturn
    \/ ConsoleOk
    \/ Finish

\* the command line has --verbose and no --txt: the report goes to the console
InitVerbose == Init /\ verbose /\ ~stat_txt

SpecSpam == InitVerbose /\ [][NextSpam]_vars

\* run() over inputs that vary the date
NextHist ==
    \/ CreateOk
    \/ SkipElement(HistElems, MaxMsgs)
    \/ FoldMessage(HistElems, MaxMsgs)
    \/ RunReturn

SpecHist == InitConsole /\ [][NextHist]_vars

\* run() with the run under the flipped switch beside it
NextPair ==
    \/ CreateOk
    \/ SkipElement(PairElems, MaxMsgs)
    \/ FoldBoth(PairElems, MaxMsgs)
    \/ RunReturn

SpecPair == InitConsole /\ [][NextPair]_vars

\* fast_tokenize on its own, over every short segment
InitTok ==
    /\ tk_pc = "loop"
    /\ tk_text \in TokInputs
    /\ tk_i = 0
    /\ tk_tokens = <<>>
    /\ pc = "idle"
    /\ verbose = FALSE
    /\ stat_txt = FALSE
    /\ messages = <<>>
    /\ stats = <<>>
    /\ out = <<>>
    /\ io = <<>>
    /\ exit_code = -1
    /\ twin = <<>>

NextTok ==
    \/ TokEmit
    \/ TokBreak
    \/ TokExit

SpecTok == InitTok /\ [][NextTok]_vars

-----------------------------------------------------------------------------
(* Properties *)

\* the step consumed one more element, and it qualifies
Folded == messages' # messages /\ qualifies(msg_val')

\* the positions of the consumed elements that qualify
Qualifying == {i \in DOMAIN messages : qualifies(messages[i])}

Ws4 == {SP, TAB, LF, CR}

RECURSIVE SplitRuns(_, _)
\* the maximal non-empty runs of characters outside Ws4, in order
SplitRuns(text, run) ==
    IF text = <<>> THEN (IF run = <<>> THEN <<>> ELSE <<run>>)
    ELSE IF Head(text) \in Ws4
         THEN (IF run = <<>> THEN <<>> ELSE <<run>>) \o SplitRuns(Tail(text), <<>>)
         ELSE SplitRuns(Tail(text), Append(run, Head(text)))

\* C1: when fast_tokenize has finished a segment, the tokens it yielded are, in
\* order, exactly the maximal non-empty runs of bytes that are none of space,
\* tab, newline and carriage return (so no token is empty and none holds one of
\* the four).
C1_TokensAreMaximalRuns ==
    tk_pc = "done" => tk_tokens = SplitRuns(tk_text, <<>>)

\* C2: when the process has exited after any output failure (transcript or
\* report, create or write), the failure was reported, the exit status is not 0
\* and the run was not reported as successful.
C2_OutputFailureIsFatal ==
    (pc = "exit" /\ io.failed # {}) =>
        /\ exit_code # 0
        /\ io.stderr # {}
        /\ "history_written" \notin io.stdout

\* C3: folding a qualifying message increments file_messages (by 1) if and only
\* if the message has `file` and no `media_type` field at all; with a
\* `media_type` field present file_messages is unchanged; media_type "sticker"
\* increments sticker_messages by exactly 1, with or without `file`.
C3_BareFileRule ==
    [][Folded =>
        /\ stats'.file_messages \in {stats.file_messages, stats.file_messages + 1}
        /\ (stats'.file_messages = stats.file_messages + 1)
              <=> (msg_val'.file /\ msg_val'.media_type.k = "absent")
        /\ (msg_val'.media_type.k # "absent"
              => stats'.file_messages = stats.file_messages)
        /\ (msg_val'.media_type = Str(STICKER)
              => stats'.sticker_messages = stats.sticker_messages + 1)]_vars

\* the scenario of C3: file and media_type "sticker" on one message
C3_Witness ==
    /\ Len(messages) = 1
    /\ qualifies(msg_val) /\ msg_val.file /\ msg_val.media_type = Str(STICKER)
    /\ stats.file_messages = 0
    /\ stats.sticker_messages = 1

\* the media_type field is a string of the recognized five
HasRecognizedMediaType(e) ==
    e.media_type.k = "str" /\ e.media_type.s \in RecognizedMediaTypes

\* C4 as stated: folding a qualifying message that has `file` and no recognized
\* media-type tag (none, or an unrecognized value) increments file_messages by 1.
C4_UnrecognizedTagCountsAsFile ==
    [][(Folded /\ msg_val'.file /\ ~HasRecognizedMediaType(msg_val'))
          => stats'.file_messages = stats.file_messages + 1]_vars

\* C4 amended: folding a qualifying message that has `file` increments
\* file_messages by 1 when the message has no `media_type` field at all, and
\* leaves file_messages and the five media-type counters unchanged when it has a
\* `media_type` that is not one of the recognized five.
C4_UnrecognizedTagIsNotAFile ==
    [][(Folded /\ msg_val'.file) =>
        /\ (msg_val'.media_type.k = "absent"
              => stats'.file_messages = stats.file_messages + 1)
        /\ (msg_val'.media_type.k # "absent" /\ ~HasRecognizedMediaType(msg_val')
              => /\ stats'.file_messages = stats.file_messages
                 /\ stats'.voice_messages = stats.voice_messages
                 /\ stats'.video_messages = stats.video_messages
                 /\ stats'.audio_messages = stats.audio_messages
                 /\ stats'.gif_messages = stats.gif_messages
                 /\ stats'.sticker_messages = stats.sticker_messages)]_vars

\* a message with `file` and the unrecognized media_type "video_message" was
\* folded and is no bare file
C4_Witness ==
    /\ Len(messages) = 1
    /\ qualifies(msg_val) /\ msg_val.file /\ ~msg_val.photo
    /\ msg_val.media_type = Str(VIDEO_MESSAGE)
    /\ stats.total_messages = 1
    /\ stats.file_messages = 0
    /\ stats.messages_with_any_media = 0

\* the derived predicate of the claim: the text field is absent, of a non-text
\* shape, has no segments, or has only empty segments
TextEmptyAsClaimed(text) ==
    \/ text.k \in {"absent", "other"}
    \/ text.k = "str" /\ text.s = <<>>
    \/ /\ text.k = "arr"
       /\ \A k \in DOMAIN text.parts :
             text.parts[k].k \in {"str", "entity"} => text.parts[k].s = <<>>

\* C5: folding a qualifying message whose text is empty and that has a `poll`
\* field increments poll_messages by 1, writes `[опрос: <question>]` as the text
\* portion of the line when the poll has a string question, and leaves
\* link_messages, both word-frequency maps and the spam map unchanged, whatever
\* the switch.
C5_PollFallbackOnly ==
    [][(Folded /\ TextEmptyAsClaimed(msg_val'.text) /\ msg_val'.poll.k # "absent") =>
        /\ stats'.poll_messages = stats.poll_messages + 1
        /\ (msg_val'.poll.k = "obj" /\ msg_val'.poll.q.k = "str"
              => out' = fold_prefix(out, msg_val') \o POLL_OPEN \o msg_val'.poll.q.s
                            \o <<"]", LF>>)
        /\ stats'.link_messages = stats.link_messages
        /\ stats'.word_freq = stats.word_freq
        /\ stats'.word_freq_per_author = stats.word_freq_per_author
        /\ stats'.spam_map = stats.spam_map]_vars

\* with words already counted, a message with text "" and a poll was folded
C5_Witness ==
    /\ verbose
    /\ Len(messages) = 2
    /\ DOMAIN stats.word_freq # {}
    /\ qualifies(msg_val) /\ msg_val.text = T_empty_str /\ msg_val.poll = Poll(Str(Q))
    /\ stats.poll_messages = 1
    /\ SubSeq(out, Len(out) - Len(POLL_OPEN) - 3, Len(out) - 4) = POLL_OPEN

\* C6: with the switch off both word-frequency maps and the spam map are empty
\* and every bucket of both histograms is 0; with it on, bucket 0 of the day
\* histogram is 0 and neither histogram's sum exceeds total_messages.
C6_ExtendedOnlyWhenOn ==
    /\ ~verbose =>
          /\ DOMAIN stats.word_freq = {}
          /\ DOMAIN stats.word_freq_per_author = {}
          /\ DOMAIN stats.spam_map = {}
          /\ \A h \in DOMAIN stats.hour_hist : stats.hour_hist[h] = 0
          /\ \A d \in DOMAIN stats.day_hist : stats.day_hist[d] = 0
    /\ verbose =>
          /\ stats.day_hist[0] = 0
          /\ SumOver(stats.hour_hist, DOMAIN stats.hour_hist) <= stats.total_messages
          /\ SumOver(stats.day_hist, DOMAIN stats.day_hist) <= stats.total_messages

\* switch off, two messages with a text and a date that parses were folded
C6_Witness ==
    /\ ~verbose
    /\ pc = "report"
    /\ stats.total_messages = 2
    /\ \A i \in DOMAIN messages :
          parse_ok(messages[i].date) /\ messages[i].text = T_abcde

IsLinkToken(t) == starts_with(t, HTTP) \/ starts_with(t, HTTPS)

\* C7 as stated: no key of the global or of a per-author word-frequency map
\* starts with http:// or https://.
C7_NoLinkKeys ==
    /\ \A k \in DOMAIN stats.word_freq : ~IsLinkToken(k)
    /\ \A a \in DOMAIN stats.word_freq_per_author :
          \A k \in DOMAIN stats.word_freq_per_author[a] : ~IsLinkToken(k)

\* the edge-trimmed tokens of a message's text, in order
TrimmedTokens(e) ==
    LET raws == RawTokens(for_each_text_segment(e.text))
    IN  [k \in DOMAIN raws |-> trim_ascii_punct(raws[k])]

\* occurrences, in the messages of `who`, of tokens that do not begin with
\* http:// or https:// as written and whose lowercase is `key`
NonLinkOccurrences(who, key) ==
    Cardinality(UNION {
        {<<i, k>> : k \in {j \in DOMAIN TrimmedTokens(messages[i]) :
            /\ ~IsLinkToken(TrimmedTokens(messages[i])[j])
            /\ to_lowercase(TrimmedTokens(messages[i])[j]) = key}} : i \in who})

\* C7 amended: a token that, as written (before lowercasing), begins with
\* http:// or https:// after edge trimming is never counted: every key's count,
\* in the global map and in each author's, is at most the number of occurrences
\* of tokens that do not begin with http:// or https:// and lowercase to that
\* key.  (A key may start with http://: HTTP://ab is counted as http://ab.)
C7_LinkTokensNotCounted ==
    /\ \A k \in DOMAIN stats.word_freq :
          stats.word_freq[k] <= NonLinkOccurrences(Qualifying, k)
    /\ \A a \in DOMAIN stats.word_freq_per_author :
          \A k \in DOMAIN stats.word_freq_per_author[a] :
             stats.word_freq_per_author[a][k]
                <= NonLinkOccurrences({i \in Qualifying : author_name(messages[i]) = a}, k)

\* http://ab and HTTP://ab were both folded; only the second was counted
C7_Witness ==
    /\ verbose
    /\ Len(messages) = 2
    /\ messages[1].text = T_http /\ qualifies(messages[1])
    /\ messages[2].text = T_HTTP_upper /\ qualifies(messages[2])
    /\ DOMAIN stats.word_freq = {HTTP \o <<"a", "b">>}
    /\ stats.word_freq[HTTP \o <<"a", "b">>] = 1
    /\ stats.link_messages = 1

\* the concatenated, trimmed, lowercased text of a message
NormText(e) == to_lowercase(trim(Concat(for_each_text_segment(e.text))))

\* the messages of author a that count for the spam score
SpamEligible(a) ==
    {i \in Qualifying :
        /\ author_name(messages[i]) = a
        /\ ~TextEmptyAsClaimed(messages[i].text)
        /\ StrLen(NormText(messages[i])) >= 5}

\* eligible messages minus distinct normalized texts
ClaimedSpamScore(a) ==
    Cardinality(SpamEligible(a)) - Cardinality({NormText(messages[i]) : i \in SpamEligible(a)})

Authors == {author_name(messages[i]) : i \in Qualifying}

\* C8: with the switch on, the spam score of each author A is (A's qualifying
\* messages with non-empty text whose normalized text has >= 5 bytes) minus (the
\* distinct such texts); shorter texts never enter A's spam map; an author is
\* listed exactly with that score and only when it is positive, in the report
\* too once it is written.
C8_SpamScore ==
    verbose =>
        /\ \A a \in Authors :
              /\ (IF a \in DOMAIN stats.spam_map
                  THEN spam_extra(stats.spam_map[a]) ELSE 0) = ClaimedSpamScore(a)
              /\ (IF a \in DOMAIN stats.spam_map THEN DOMAIN stats.spam_map[a] ELSE {})
                    = {NormText(messages[i]) : i \in SpamEligible(a)}
        /\ spam_scores(stats) = {<<a, ClaimedSpamScore(a)>> : a \in {b \in Authors : ClaimedSpamScore(b) > 0}}
        /\ (pc \in {"finish", "exit"} /\ "report_flush" \notin io.failed)
              => io.spam = {<<a, ClaimedSpamScore(a)>> : a \in {b \in Authors : ClaimedSpamScore(b) > 0}}

\* two messages of A with the same normalized text (and a shorter one): the
\* report lists A with 1
C8_Witness ==
    /\ verbose
    /\ pc = "exit"
    /\ Len(messages) = 3
    /\ messages[1] = Msg(Str(A), NoDate, T_abcde, NoPoll, FALSE, Absent, FALSE)
    /\ messages[2] = Msg(Str(A), NoDate, T_nbsp_abcd, NoPoll, FALSE, Absent, FALSE)
    /\ messages[3] = Msg(Str(A), NoDate, T_ABCDE_padded, NoPoll, FALSE, Absent, FALSE)
    /\ io.spam = {<<A, 1>>}

\* the message sets at least one of the eight media flags
SetsMediaFlag(e) ==
    \/ e.photo
    \/ HasRecognizedMediaType(e)
    \/ (e.file /\ e.media_type.k = "absent")
    \/ e.poll.k # "absent"

MediaCounters ==
    {"photo_messages", "voice_messages", "video_messages", "audio_messages",
     "gif_messages", "sticker_messages", "file_messages", "poll_messages"}

\* C9: messages_with_any_media is the number of qualifying messages that set at
\* least one media flag (one per message, however many flags it sets); every
\* media/poll counter <= any-media <= total_messages, and any-media <= the sum
\* of the media and poll counters.
C9_AnyMediaOncePerMessage ==
    /\ stats.messages_with_any_media
          = Cardinality({i \in Qualifying : SetsMediaFlag(messages[i])})
    /\ \A c \in MediaCounters : stats[c] <= stats.messages_with_any_media
    /\ stats.messages_with_any_media <= stats.total_messages
    /\ stats.messages_with_any_media <= SumOver(stats, MediaCounters)

\* one message with three flags and one with none
C9_Witness ==
    /\ Len(messages) = 2
    /\ stats.total_messages = 2
    /\ stats.messages_with_any_media = 1
    /\ \E i \in DOMAIN messages : messages[i].photo /\ messages[i].file /\ messages[i].poll.k # "absent"
    /\ stats.photo_messages = 1 /\ stats.file_messages = 1 /\ stats.poll_messages = 1

\* the results the switch must not influence
Basic(st) ==
    [c \in {"total_messages", "forwarded_messages", "link_messages", "poll_messages",
            "messages_with_any_media", "per_author"} \cup (MediaCounters \ {"poll_messages"})
        |-> st[c]]

\* C10: the run with the switch on and the run with it off have written the
\* same transcript and hold the same total, forwarded, link, poll, per-media,
\* any-media counters and per-author map, whose values sum to total_messages;
\* an element that is no object or whose type is not "message" changes none of
\* these in either run.
C10_SwitchDoesNotChangeBasics ==
    /\ [](/\ twin.o = out
          /\ Basic(twin.st) = Basic(stats)
          /\ SumOver(stats.per_author, DOMAIN stats.per_author) = stats.total_messages)
    /\ [][(messages' # messages /\ ~qualifies(msg_val'))
            => /\ out' = out /\ twin'.o = twin.o
               /\ Basic(stats') = Basic(stats)
               /\ Basic(twin'.st) = Basic(twin.st)]_vars

\* two messages with text, one with a link: the extended maps differ, the
\* basics do not
C10_Witness ==
    /\ verbose
    /\ Len(messages) = 2
    /\ stats.total_messages = 2
    /\ stats.link_messages = 1
    /\ DOMAIN stats.word_freq # {}
    /\ DOMAIN stats.spam_map # {}
    /\ DOMAIN twin.st.word_freq = {}
    /\ out # <<>> /\ twin.o = out

====
